---- MODULE Spec2Model ----
(***************************************************************************)
(* EmailService (packages/backend/src/core/EmailService.ts): the bounce    *)
(* table check (checkEmailBounce), the guarded send (sendEmail) and the    *)
(* eligibility verdict (validateEmailForAccount), as a state machine over  *)
(* the DynamoDB bounce table, the SES client, the clock and the calls in   *)
(* flight.  A call is split at its awaits; everything between two awaits   *)
(* is one step.                                                            *)
(***************************************************************************)
EXTENDS Integers, Sequences, FiniteSets, TLC

\* ---------------------------------------------------------------- bounds
MaxTicks == 2          \* clock advances in one behaviour
MaxExist == 1          \* largest count the account lookup answers
StartMs  == 1500       \* Date.now() of the initial state (milliseconds)

\* the calls of the public operations in one behaviour: two, so that every
\* pair of steps of two calls interleaves
Calls     == {"c1", "c2"}
Addresses == {"bounced@example.com"}
MessageIds == {"msg-1", "msg-2"}

\* what process.env.BOUNCE_TABLE_NAME can hold
TableNames == {"undefined", "", "BounceTable"}

\* clock steps: half a second (so that Math.floor matters) and a week
TickSteps == {500, 86400 * 7 * 1000}

VARIABLES
    tableName,   \* process.env.BOUNCE_TABLE_NAME
    meta,        \* what metaService.fetch() answers
    table,       \* the bounce table: address -> item (category Bounce_Info)
    nowMs,       \* Date.now()
    ticks,       \* clock advances so far
    call         \* the calls: position, arguments, locals, outcome

vars == <<tableName, meta, table, nowMs, ticks, call>>

\* ------------------------------------------------------------ bounce table
NoItem == [present |-> FALSE, ttl |-> 0, info |-> FALSE]

\* an item written by the bounce notification handler: it carries the bounce
\* information besides the ttl
BounceItem(ttl) == [present |-> TRUE, ttl |-> ttl, info |-> TRUE]

\* UpdateItem "SET #TL = :tl" with no condition expression: sets the
\* attribute on the item of that key; an absent item is created with the key
\* and that attribute only
UpdateItemApply(item, tl) ==
    IF item.present THEN [item EXCEPT !.ttl = tl]
    ELSE [present |-> TRUE, ttl |-> tl, info |-> FALSE]

nowSec == nowMs \div 1000

\* ------------------------------------------------------------ pure parts
\* !tableName
Falsy(v) == v \in {"undefined", ""}

\* variant: the window is a day
endTime_Day(ms) == (ms \div 1000) + 86400

\* variant: the milliseconds are not turned into seconds
endTime_Millis(ms) == ms + 86400 * 7

\* Math.floor(Date.now() / 1000) + 86400 * 7
endTime(ms) == (ms \div 1000) + 86400 * 7

\* variant: the typo check is left on
validateOptions_Typo ==
    [regex |-> TRUE, mx |-> TRUE, typo |-> TRUE, disposable |-> TRUE, smtp |-> FALSE]

\* the options of the validateEmail call
validateOptions ==
    [regex |-> TRUE, mx |-> TRUE, typo |-> FALSE, disposable |-> TRUE, smtp |-> FALSE]

ValidatorReasons == {"regex", "typo", "disposable", "mx", "smtp"}

\* what the validator can answer under the options: valid, or invalid with
\* the name of an enabled check as the reason
validateEmailResults(opts) ==
    {[valid |-> TRUE, reason |-> "undefined"]} \cup
    {[valid |-> FALSE, reason |-> r] : r \in {x \in ValidatorReasons : opts[x]}}

\* the validator is skipped: { valid: true, reason: null }
validationSkipped == [valid |-> TRUE, reason |-> "null"]

\* variant: the bounce check is left out of the conjunction
available_NoBounce(exist, validated, checkBounce) ==
    exist = 0 /\ validated.valid

\* const available = exist === 0 && validated.valid && !checkBounce
available(exist, validated, checkBounce) ==
    exist = 0 /\ validated.valid /\ ~checkBounce

\* variant: the bounce test comes before the count test
reason_BounceFirst(exist, validated, checkBounce) ==
    IF available(exist, validated, checkBounce) THEN "null"
    ELSE IF checkBounce THEN "smtp"
    ELSE IF exist # 0 THEN "used"
    ELSE IF validated.reason = "regex" THEN "format"
    ELSE IF validated.reason = "disposable" THEN "disposable"
    ELSE IF validated.reason = "mx" THEN "mx"
    ELSE IF validated.reason = "smtp" THEN "smtp"
    ELSE "null"

\* the reason of the returned verdict
reason(exist, validated, checkBounce) ==
    IF available(exist, validated, checkBounce) THEN "null"
    ELSE IF exist # 0 THEN "used"
    ELSE IF checkBounce THEN "smtp"
    ELSE IF validated.reason = "regex" THEN "format"
    ELSE IF validated.reason = "disposable" THEN "disposable"
    ELSE IF validated.reason = "mx" THEN "mx"
    ELSE IF validated.reason = "smtp" THEN "smtp"
    ELSE "null"

verdict(exist, validated, checkBounce) ==
    [available |-> available(exist, validated, checkBounce),
     reason    |-> reason(exist, validated, checkBounce)]

NoVerdict == [available |-> FALSE, reason |-> "none"]
NoValidated == [valid |-> FALSE, reason |-> "none"]

\* ------------------------------------------------------------------ calls
IdleCall ==
    [op        |-> "none",      \* sendEmail | validateEmailForAccount
     pc        |-> "idle",
     to        |-> "",          \* the address argument
     item      |-> "none",      \* the GetItem answer: none | absent | present | rejected
     updated   |-> "none",      \* the UpdateItem answer: none | applied | rejected
     nowRead   |-> 0,           \* the Date.now() read for endTime
     endTime   |-> 0,
     checkRes  |-> "none",      \* what checkEmailBounce returned
     exist     |-> 0,
     validated |-> NoValidated,
     verdict   |-> NoVerdict,
     messageId |-> "none",      \* sesRes.MessageId
     returned  |-> "pending",   \* the value the call returned
     error     |-> "none",      \* the error the call threw
     logged    |-> <<>>,        \* the logger calls of this call
     gets      |-> 0,           \* GetItem commands sent
     updates   |-> 0,           \* UpdateItem commands sent
     sends     |-> 0,           \* SendEmail commands sent
     validates |-> 0]           \* validateEmail calls

Throw(r, e) == [r EXCEPT !.pc = "done", !.error = e]

\* variant: the table name is not looked at
checkEmailBounce_NoGuard(r) == [r EXCEPT !.pc = "get", !.gets = @ + 1]

\* checkEmailBounce up to its first await: no table name, return false;
\* otherwise send the GetItem command
checkEmailBounce(r) ==
    IF Falsy(tableName)
    THEN [r EXCEPT !.pc = "checked", !.checkRes = "false"]
    ELSE [r EXCEPT !.pc = "get", !.gets = @ + 1]

\* sendEmail up to the await inside checkEmailBounce
sendEmail(c, to) ==
    /\ call[c].pc = "idle"
    /\ \E fetched \in BOOLEAN :
         LET r == [call[c] EXCEPT !.op = "sendEmail", !.to = to] IN
         call' = [call EXCEPT ![c] =
                    IF fetched THEN checkEmailBounce(r) ELSE Throw(r, "MetaError")]
    /\ UNCHANGED <<tableName, meta, table, nowMs, ticks>>

\* variant: an address already in use is not looked up in the bounce table
validateEmailForAccount_SkipWhenUsed(c, emailAddress) ==
    /\ call[c].pc = "idle"
    /\ \E outcome \in {"MetaError", "RepositoryError"} \cup {"ok"}, exist \in 0..MaxExist :
         LET r == [call[c] EXCEPT !.op = "validateEmailForAccount", !.to = emailAddress] IN
         call' = [call EXCEPT ![c] =
                    IF outcome # "ok" THEN Throw(r, outcome)
                    ELSE IF exist # 0
                    THEN [r EXCEPT !.exist = exist, !.pc = "checked", !.checkRes = "false"]
                    ELSE checkEmailBounce([r EXCEPT !.exist = exist])]
    /\ UNCHANGED <<tableName, meta, table, nowMs, ticks>>

\* validateEmailForAccount up to the await inside checkEmailBounce
validateEmailForAccount(c, emailAddress) ==
    /\ call[c].pc = "idle"
    /\ \E outcome \in {"MetaError", "RepositoryError"} \cup {"ok"}, exist \in 0..MaxExist :
         LET r == [call[c] EXCEPT !.op = "validateEmailForAccount", !.to = emailAddress] IN
         call' = [call EXCEPT ![c] =
                    IF outcome = "ok"
                    THEN checkEmailBounce([r EXCEPT !.exist = exist])
                    ELSE Throw(r, outcome)]
    /\ UNCHANGED <<tableName, meta, table, nowMs, ticks>>

\* variant: a failed GetItem command is taken for "no item"
GetItem_Swallow(c) ==
    /\ call[c].pc = "get"
    /\ \E ok \in BOOLEAN :
         call' = [call EXCEPT ![c] =
                    IF ok
                    THEN [@ EXCEPT !.pc = "got",
                                   !.item = IF table[call[c].to].present
                                             THEN "present" ELSE "absent"]
                    ELSE [@ EXCEPT !.pc = "checked", !.item = "rejected",
                                   !.checkRes = "false"]]
    /\ UNCHANGED <<tableName, meta, table, nowMs, ticks>>

\* variant: an item whose ttl has passed is taken for "no item"
GetItem_FilterExpired(c) ==
    /\ call[c].pc = "get"
    /\ \E ok \in BOOLEAN :
         call' = [call EXCEPT ![c] =
                    IF ok
                    THEN [@ EXCEPT !.pc = "got",
                                   !.item = IF /\ table[call[c].to].present
                                                /\ table[call[c].to].ttl >= nowSec
                                             THEN "present" ELSE "absent"]
                    ELSE [Throw(@, "StoreUnavailable") EXCEPT !.item = "rejected"]]
    /\ UNCHANGED <<tableName, meta, table, nowMs, ticks>>

\* the table answers the GetItem command, or the command fails
GetItem(c) ==
    /\ call[c].pc = "get"
    /\ \E ok \in BOOLEAN :
         call' = [call EXCEPT ![c] =
                    IF ok
                    THEN [@ EXCEPT !.pc = "got",
                                   !.item = IF table[call[c].to].present
                                             THEN "present" ELSE "absent"]
                    ELSE [Throw(@, "StoreUnavailable") EXCEPT !.item = "rejected"]]
    /\ UNCHANGED <<tableName, meta, table, nowMs, ticks>>

\* variant: the ttl is written whether or not there is an item
checkEmailBounceGot_Always(c) ==
    /\ call[c].pc = "got"
    /\ call' = [call EXCEPT ![c] =
                  [@ EXCEPT !.pc = "update", !.nowRead = nowMs,
                            !.endTime = endTime(nowMs), !.updates = @ + 1]]
    /\ UNCHANGED <<tableName, meta, table, nowMs, ticks>>

\* checkEmailBounce after the GetItem answer: no item, return false;
\* otherwise compute endTime and send the UpdateItem command
checkEmailBounceGot(c) ==
    /\ call[c].pc = "got"
    /\ call' = [call EXCEPT ![c] =
                  IF @.item = "absent"
                  THEN [@ EXCEPT !.pc = "checked", !.checkRes = "false"]
                  ELSE [@ EXCEPT !.pc = "update", !.nowRead = nowMs,
                                 !.endTime = endTime(nowMs), !.updates = @ + 1]]
    /\ UNCHANGED <<tableName, meta, table, nowMs, ticks>>

\* variant: the ttl is written only when it is later than the stored one
UpdateItem_KeepLater(c) ==
    /\ call[c].pc = "update"
    /\ \E ok \in BOOLEAN :
         IF ok
         THEN /\ table' = [table EXCEPT ![call[c].to] =
                             IF @.present /\ @.ttl >= call[c].endTime
                             THEN @ ELSE UpdateItemApply(@, call[c].endTime)]
              /\ call' = [call EXCEPT ![c] = [@ EXCEPT !.pc = "checked", !.updated = "applied",
                                                       !.checkRes = "true"]]
         ELSE /\ table' = table
              /\ call' = [call EXCEPT ![c] =
                            [Throw(@, "StoreUnavailable") EXCEPT !.updated = "rejected"]]
    /\ UNCHANGED <<tableName, meta, nowMs, ticks>>

\* variant: a failed UpdateItem command is taken for "not bounced"
UpdateItem_Swallow(c) ==
    /\ call[c].pc = "update"
    /\ \E ok \in BOOLEAN :
         IF ok
         THEN /\ table' = [table EXCEPT ![call[c].to] = UpdateItemApply(@, call[c].endTime)]
              /\ call' = [call EXCEPT ![c] = [@ EXCEPT !.pc = "checked", !.updated = "applied",
                                                       !.checkRes = "true"]]
         ELSE /\ table' = table
              /\ call' = [call EXCEPT ![c] = [@ EXCEPT !.pc = "checked", !.updated = "rejected",
                                                       !.checkRes = "false"]]
    /\ UNCHANGED <<tableName, meta, nowMs, ticks>>

\* the table applies the UpdateItem command and checkEmailBounce returns
\* true, or the command fails
UpdateItem(c) ==
    /\ call[c].pc = "update"
    /\ \E ok \in BOOLEAN :
         IF ok
         THEN /\ table' = [table EXCEPT ![call[c].to] = UpdateItemApply(@, call[c].endTime)]
              /\ call' = [call EXCEPT ![c] = [@ EXCEPT !.pc = "checked", !.updated = "applied",
                                                       !.checkRes = "true"]]
         ELSE /\ table' = table
              /\ call' = [call EXCEPT ![c] =
                            [Throw(@, "StoreUnavailable") EXCEPT !.updated = "rejected"]]
    /\ UNCHANGED <<tableName, meta, nowMs, ticks>>

\* variant: the result of checkEmailBounce is logged but does not stop the send
sendEmailChecked_NoGate(c) ==
    /\ call[c].pc = "checked"
    /\ call[c].op = "sendEmail"
    /\ call' = [call EXCEPT ![c] =
                  [@ EXCEPT !.pc = "transport", !.sends = @ + 1,
                            !.logged = IF call[c].checkRes = "true"
                                       THEN Append(@, <<"error", "bounce table">>) ELSE @]]
    /\ UNCHANGED <<tableName, meta, table, nowMs, ticks>>

\* sendEmail after checkEmailBounce: throw for a bounced address, otherwise
\* build the message and send the SendEmail command
sendEmailChecked(c) ==
    /\ call[c].pc = "checked"
    /\ call[c].op = "sendEmail"
    /\ call' = [call EXCEPT ![c] =
                  IF @.checkRes = "true"
                  THEN [Throw(@, "SuppressedRecipient") EXCEPT
                          !.logged = Append(@, <<"error", "bounce table">>)]
                  ELSE [@ EXCEPT !.pc = "transport", !.sends = @ + 1]]
    /\ UNCHANGED <<tableName, meta, table, nowMs, ticks>>

\* variant: a failed send records the address in the bounce table
clientSend_RecordBounce(c) ==
    /\ call[c].pc = "transport"
    /\ \/ /\ \E id \in MessageIds :
               call' = [call EXCEPT ![c] =
                          [@ EXCEPT !.pc = "done", !.messageId = id,
                                    !.logged = Append(@, <<"info", id>>),
                                    !.returned = "undefined"]]
          /\ table' = table
       \/ /\ call' = [call EXCEPT ![c] =
                        [Throw(@, "TransportFailure") EXCEPT
                           !.logged = Append(@, <<"error", "TransportFailure">>)]]
          /\ table' = [table EXCEPT ![call[c].to] = BounceItem(endTime(nowMs))]
    /\ UNCHANGED <<tableName, meta, nowMs, ticks>>

\* variant: the message id is returned
clientSend_ReturnsId(c) ==
    /\ call[c].pc = "transport"
    /\ \/ \E id \in MessageIds :
            call' = [call EXCEPT ![c] =
                       [@ EXCEPT !.pc = "done", !.messageId = id,
                                 !.logged = Append(@, <<"info", id>>),
                                 !.returned = id]]
       \/ call' = [call EXCEPT ![c] =
                     [Throw(@, "TransportFailure") EXCEPT
                        !.logged = Append(@, <<"error", "TransportFailure">>)]]
    /\ UNCHANGED <<tableName, meta, table, nowMs, ticks>>

\* variant: a failed send is logged and sent once more
clientSend_Retry(c) ==
    /\ call[c].pc = "transport"
    /\ \/ \E id \in MessageIds :
            call' = [call EXCEPT ![c] =
                       [@ EXCEPT !.pc = "done", !.messageId = id,
                                 !.logged = Append(@, <<"info", id>>),
                                 !.returned = "undefined"]]
       \/ call' = [call EXCEPT ![c] =
                     IF @.sends < 2
                     THEN [@ EXCEPT !.sends = @ + 1,
                                    !.logged = Append(@, <<"error", "TransportFailure">>)]
                     ELSE [Throw(@, "TransportFailure") EXCEPT
                             !.logged = Append(@, <<"error", "TransportFailure">>)]]
    /\ UNCHANGED <<tableName, meta, table, nowMs, ticks>>

\* the SES client answers with a message id, or the send fails
clientSend(c) ==
    /\ call[c].pc = "transport"
    /\ \/ \E id \in MessageIds :
            call' = [call EXCEPT ![c] =
                       [@ EXCEPT !.pc = "done", !.messageId = id,
                                 !.logged = Append(@, <<"info", id>>),
                                 !.returned = "undefined"]]
       \/ call' = [call EXCEPT ![c] =
                     [Throw(@, "TransportFailure") EXCEPT
                        !.logged = Append(@, <<"error", "TransportFailure">>)]]
    /\ UNCHANGED <<tableName, meta, table, nowMs, ticks>>

Return(r, validated) ==
    [r EXCEPT !.pc = "done", !.validated = validated, !.returned = "verdict",
              !.verdict = verdict(r.exist, validated, r.checkRes = "true")]

\* variant: the validator is called whatever the flag
validateEmailForAccountChecked_Always(c) ==
    /\ call[c].pc = "checked"
    /\ call[c].op = "validateEmailForAccount"
    /\ call' = [call EXCEPT ![c] = [@ EXCEPT !.pc = "validating", !.validates = @ + 1]]
    /\ UNCHANGED <<tableName, meta, table, nowMs, ticks>>

\* validateEmailForAccount after checkEmailBounce: call the validator when
\* meta.enableActiveEmailValidation, otherwise return the verdict
validateEmailForAccountChecked(c) ==
    /\ call[c].pc = "checked"
    /\ call[c].op = "validateEmailForAccount"
    /\ call' = [call EXCEPT ![c] =
                  IF meta.enableActiveEmailValidation
                  THEN [@ EXCEPT !.pc = "validating", !.validates = @ + 1]
                  ELSE Return(@, validationSkipped)]
    /\ UNCHANGED <<tableName, meta, table, nowMs, ticks>>

\* the validator answers and validateEmailForAccount returns the verdict, or
\* the validator throws
validateEmail(c) ==
    /\ call[c].pc = "validating"
    /\ \/ \E validated \in validateEmailResults(validateOptions) :
            call' = [call EXCEPT ![c] = Return(@, validated)]
       \/ call' = [call EXCEPT ![c] = Throw(@, "ValidatorError")]
    /\ UNCHANGED <<tableName, meta, table, nowMs, ticks>>

\* ------------------------------------------------------------ environment
\* the clock advances
Tick ==
    /\ ticks < MaxTicks
    /\ \E dt \in TickSteps : nowMs' = nowMs + dt
    /\ ticks' = ticks + 1
    /\ UNCHANGED <<tableName, meta, table, call>>

\* a bounce notification records an address, out of this service
BounceNotification(a) ==
    /\ ~table[a].present
    /\ table' = [table EXCEPT ![a] = BounceItem(endTime(nowMs))]
    /\ UNCHANGED <<tableName, meta, nowMs, ticks, call>>

\* the table's time-to-live deletes an item whose ttl has passed
TimeToLive(a) ==
    /\ table[a].present
    /\ table[a].ttl < nowSec
    /\ table' = [table EXCEPT ![a] = NoItem]
    /\ UNCHANGED <<tableName, meta, nowMs, ticks, call>>

\* --------------------------------------------------------- specification
InitItems == {NoItem, BounceItem(0), BounceItem(endTime(StartMs))}

Init ==
    /\ tableName \in TableNames
    /\ meta \in [enableActiveEmailValidation : BOOLEAN]
    /\ table \in [Addresses -> InitItems]
    /\ nowMs = StartMs
    /\ ticks = 0
    /\ call = [c \in Calls |-> IdleCall]

Next ==
    \/ \E c \in Calls, a \in Addresses : sendEmail(c, a)
    \/ \E c \in Calls, a \in Addresses : validateEmailForAccount(c, a)
    \/ \E c \in Calls : GetItem(c)
    \/ \E c \in Calls : checkEmailBounceGot(c)
    \/ \E c \in Calls : UpdateItem(c)
    \/ \E c \in Calls : sendEmailChecked(c)
    \/ \E c \in Calls : clientSend(c)
    \/ \E c \in Calls : validateEmailForAccountChecked(c)
    \/ \E c \in Calls : validateEmail(c)
    \/ Tick
    \/ \E a \in Addresses : BounceNotification(a)
    \/ \E a \in Addresses : TimeToLive(a)

Spec == Init /\ [][Next]_vars

\* ------------------------------------------------------------- properties
IsSend(c)     == call[c].op = "sendEmail"
IsValidate(c) == call[c].op = "validateEmailForAccount"
Done(c)       == call[c].pc = "done"
\* checkEmailBounce of call c is over: it returned or threw
CheckOver(c)  == call[c].pc \in {"checked", "transport", "validating"}
                   \/ (Done(c) /\ call[c].error \notin {"MetaError", "RepositoryError"})
\* a step of call c
StepOf(c)     == call'[c] # call[c]

\* C1: a sendEmail call whose bounce check answered true never sends a
\* SendEmail command and ends by throwing the bounce-table error, without
\* returning.
C1_SuppressedIsNeverSent ==
    \A c \in Calls :
        (IsSend(c) /\ call[c].checkRes = "true") =>
            /\ call[c].sends = 0
            /\ call[c].pc \in {"checked", "done"}
            /\ call[c].messageId = "none"
            /\ Done(c) => /\ call[c].error = "SuppressedRecipient"
                          /\ call[c].returned = "pending"

C1_Witness ==
    \E c \in Calls : IsSend(c) /\ call[c].checkRes = "true" /\ Done(c)

\* C2: with a table name set, a rejected GetItem command ends the check by
\* throwing the store's error: the check returns neither false nor true, and
\* the GetItem command was sent once, with no UpdateItem command.
C2_LookupFailurePropagates ==
    \A c \in Calls :
        /\ call[c].gets <= 1
        /\ call[c].item = "rejected" =>
              /\ ~Falsy(tableName)
              /\ Done(c)
              /\ call[c].error = "StoreUnavailable"
              /\ call[c].checkRes = "none"
              /\ call[c].returned = "pending"
              /\ call[c].gets = 1
              /\ call[c].updates = 0
              /\ call[c].sends = 0

C2_Witness ==
    \E c \in Calls : call[c].item = "rejected" /\ Done(c)

\* C3: with no table name, the check returns false for every address and
\* sends no GetItem and no UpdateItem command, whatever the table holds.
C3_NoTableNoStoreCall ==
    Falsy(tableName) =>
        \A c \in Calls :
            /\ call[c].gets = 0
            /\ call[c].updates = 0
            /\ call[c].item = "none"
            /\ call[c].pc \notin {"get", "got", "update"}
            /\ CheckOver(c) => call[c].checkRes = "false"

C3_Witness ==
    /\ Falsy(tableName)
    /\ \E c \in Calls : /\ call[c].checkRes = "false"
                         /\ table[call[c].to].present

\* C4 as claimed: every check that found an item returns true after one
\* UpdateItem command.
C4_AsClaimed ==
    \A c \in Calls :
        (call[c].item = "present" /\ CheckOver(c)) =>
            call[c].checkRes = "true" /\ call[c].updates = 1

\* C4, amended: a check that found an item sends exactly one UpdateItem
\* command, carrying now + 604800 s for the now read when the command is
\* built; when the table applies it the item's ttl is that value, whatever
\* it was, and the check returns true; when the command is rejected the
\* check throws the store's error and returns nothing.
C4_Inv ==
    \A c \in Calls :
        (call[c].item = "present" /\ call[c].pc # "got") =>
            /\ call[c].updates = 1
            /\ call[c].endTime = (call[c].nowRead \div 1000) + 604800
            /\ CASE call[c].updated = "applied"  -> call[c].checkRes = "true"
                 [] call[c].updated = "rejected" -> /\ call[c].checkRes = "none"
                                                    /\ Done(c)
                                                    /\ call[c].error = "StoreUnavailable"
                 [] OTHER -> call[c].pc = "update" /\ call[c].checkRes = "none"

C4_Step ==
    \A c \in Calls :
        /\ (call[c].pc = "got" /\ call'[c].pc = "update") =>
              call'[c].endTime = (nowMs \div 1000) + 604800
        /\ (call[c].updated = "none" /\ call'[c].updated = "applied") =>
              /\ table'[call[c].to].present
              /\ table'[call[c].to].ttl = (call[c].nowRead \div 1000) + 604800

C4_RefreshOnHit == [](C4_Inv) /\ [][C4_Step]_vars

C4_Witness ==
    \E c \in Calls :
        /\ call[c].item = "present"
        /\ call[c].checkRes = "true"
        /\ call[c].nowRead > StartMs
        /\ table[call[c].to].ttl = call[c].endTime

\* C5: a check that found no item returns false and sends no UpdateItem
\* command: no step of that call changes the table.
C5_Inv ==
    \A c \in Calls :
        call[c].item = "absent" =>
            /\ call[c].updates = 0
            /\ call[c].updated = "none"
            /\ call[c].pc # "update"
            /\ CheckOver(c) => call[c].checkRes = "false"

C5_Step ==
    \A c \in Calls :
        (call[c].item = "absent" /\ StepOf(c)) => table' = table

C5_MissLeavesTable == [](C5_Inv) /\ [][C5_Step]_vars

C5_Witness ==
    \E c \in Calls : call[c].item = "absent" /\ call[c].checkRes = "false"

\* the verdict's inputs, in the specification's words
Returned(c)     == IsValidate(c) /\ call[c].returned = "verdict"
IsSuppressed(c) == call[c].checkRes = "true"
FormatResult(validated) ==
    IF validated.valid THEN "valid"
    ELSE CASE validated.reason = "regex"      -> "invalid-format"
           [] validated.reason = "disposable" -> "disposable"
           [] validated.reason = "mx"         -> "invalid-mx"
           [] validated.reason = "smtp"       -> "invalid-smtp"
           [] OTHER                           -> "other"

\* C6: the returned verdict has available = (count is 0) and (format result
\* is valid) and not suppressed; with all three clear it is
\* {available: true, reason: null}.
C6_AvailableIsConjunction ==
    \A c \in Calls :
        Returned(c) =>
            LET clear == /\ call[c].exist = 0
                         /\ FormatResult(call[c].validated) = "valid"
                         /\ ~IsSuppressed(c)
            IN /\ call[c].verdict.available = clear
               /\ clear => call[c].verdict = [available |-> TRUE, reason |-> "null"]

C6_Witness ==
    /\ \E c \in Calls : Returned(c) /\ call[c].verdict.available
    /\ \E c \in Calls : Returned(c) /\ call[c].exist = 0 /\ call[c].validated.valid
                                       /\ IsSuppressed(c) /\ ~call[c].verdict.available

\* the precedence table: the first rule that matches gives the reason
Precedence(exist, suppressed, validated, v) ==
    ~v.available =>
        LET f == FormatResult(validated) IN
        /\ exist # 0 => v.reason = "used"
        /\ (exist = 0 /\ suppressed) => v.reason = "smtp"
        /\ (exist = 0 /\ ~suppressed /\ f = "invalid-format") => v.reason = "format"
        /\ (exist = 0 /\ ~suppressed /\ f = "disposable") => v.reason = "disposable"
        /\ (exist = 0 /\ ~suppressed /\ f = "invalid-mx") => v.reason = "mx"
        /\ (exist = 0 /\ ~suppressed /\ f = "invalid-smtp") => v.reason = "smtp"

\* every answer of the validator's type, whatever the options
AnyValidated ==
    {validationSkipped} \cup validateEmailResults([r \in ValidatorReasons |-> TRUE])

\* C7: an unavailable verdict carries the reason of the first matching rule,
\* in the order used, smtp (suppressed), format, disposable, mx, smtp: in
\* every returned verdict, and for every count, suppression state and
\* validator answer the verdict can be computed from.
C7_ReasonPrecedence ==
    /\ \A c \in Calls :
          Returned(c) =>
              Precedence(call[c].exist, IsSuppressed(c), call[c].validated, call[c].verdict)
    /\ \A c \in Calls :
          IsValidate(c) =>
              \A validated \in AnyValidated :
                  Precedence(call[c].exist, IsSuppressed(c), validated,
                             verdict(call[c].exist, validated, IsSuppressed(c)))

C7_Witness ==
    /\ \E c \in Calls : /\ Returned(c) /\ call[c].exist # 0 /\ IsSuppressed(c)
                         /\ ~call[c].validated.valid
                         /\ call[c].verdict = [available |-> FALSE, reason |-> "used"]
    /\ \E c \in Calls : /\ Returned(c) /\ call[c].exist = 0 /\ IsSuppressed(c)
                         /\ ~call[c].validated.valid
                         /\ call[c].verdict = [available |-> FALSE, reason |-> "smtp"]

\* C8: in every returned verdict the reason is null exactly when available is
\* true: an unavailable verdict carries one of used, format, disposable, mx,
\* smtp.
C8_ReasonNullIffAvailable ==
    \A c \in Calls :
        Returned(c) =>
            /\ (call[c].verdict.reason = "null") <=> call[c].verdict.available
            /\ ~call[c].verdict.available =>
                  call[c].verdict.reason \in {"used", "format", "disposable", "mx", "smtp"}

C8_Witness ==
    \E c \in Calls : /\ Returned(c) /\ call[c].exist = 0 /\ ~IsSuppressed(c)
                     /\ ~call[c].validated.valid
                     /\ ~call[c].verdict.available

\* C9: a sendEmail call whose lookup found no item sends no UpdateItem
\* command and none of its steps changes the table, up to and including the
\* answer of the transport, success or failure.
C9_Inv ==
    \A c \in Calls :
        (IsSend(c) /\ call[c].item = "absent") =>
            /\ call[c].updates = 0
            /\ call[c].updated = "none"
            /\ Done(c) => /\ call[c].error \in {"none", "TransportFailure"}
                          /\ call[c].sends = 1

C9_Step ==
    \A c \in Calls :
        (IsSend(c) /\ StepOf(c) /\ call'[c].item = "absent") => table' = table

C9_CleanSendLeavesTable == [](C9_Inv) /\ [][C9_Step]_vars

C9_Witness ==
    /\ \E c \in Calls : /\ IsSend(c) /\ call[c].item = "absent" /\ Done(c)
                         /\ call[c].error = "TransportFailure"
                         /\ ~table[call[c].to].present
    /\ \E c \in Calls : /\ IsSend(c) /\ call[c].item = "absent" /\ Done(c)
                         /\ call[c].error = "none"

\* C10 as claimed: a sendEmail call whose send succeeded returns the message
\* id of the transport.
C10_AsClaimed ==
    \A c \in Calls :
        (IsSend(c) /\ Done(c) /\ call[c].error = "none") =>
            call[c].returned = call[c].messageId

\* C10, amended: a sendEmail call to an address that is not suppressed and
\* whose send succeeded logs the message id of the transport and returns
\* undefined.
C10_SendLogsMessageId ==
    \A c \in Calls :
        (IsSend(c) /\ Done(c) /\ call[c].error = "none") =>
            /\ call[c].checkRes = "false"
            /\ call[c].sends = 1
            /\ call[c].messageId \in MessageIds
            /\ call[c].logged = << <<"info", call[c].messageId>> >>
            /\ call[c].returned = "undefined"

C10_Witness ==
    \E c \in Calls : /\ IsSend(c) /\ Done(c) /\ call[c].error = "none"
                     /\ call[c].messageId = "msg-2"

\* the logger was given the transport's error (the catch block of sendEmail)
TransportFailed(c) ==
    \E i \in 1..Len(call[c].logged) : call[c].logged[i] = <<"error", "TransportFailure">>

\* C11: a sendEmail call whose SendEmail command failed ends by throwing that
\* same error, after exactly one SendEmail command; no sendEmail call sends
\* more than one SendEmail command.
C11_TransportErrorOnce ==
    \A c \in Calls :
        /\ call[c].sends <= 1
        /\ call[c].sends = 1 => call[c].pc \in {"transport", "done"}
        /\ TransportFailed(c) =>
              /\ IsSend(c)
              /\ Done(c)
              /\ call[c].error = "TransportFailure"
              /\ call[c].returned = "pending"
              /\ call[c].messageId = "none"
              /\ call[c].sends = 1
              /\ call[c].logged = << <<"error", "TransportFailure">> >>

C11_Witness ==
    \E c \in Calls : TransportFailed(c) /\ Done(c) /\ call[c].sends = 1

\* C12: no step of a call creates an item: an address with no item before a
\* step of sendEmail or validateEmailForAccount has no item after it, so an
\* item the table's time-to-live has deleted does not come back through a
\* call.
C12_CoreNeverCreates ==
    [][\A c \in Calls : StepOf(c) =>
          \A a \in Addresses : table'[a].present => table[a].present]_vars

\* the address has an item and now is not after its ttl (suppressedUntil)
Alive(a) == table[a].present /\ nowSec <= table[a].ttl
AliveNext(a) == table'[a].present /\ (nowMs' \div 1000) <= table'[a].ttl
\* steps of call c: the table answers its GetItem, the table applies its UpdateItem
Answered(c) == call[c].pc = "get" /\ call'[c].pc = "got"
Applied(c)  == call[c].updated = "none" /\ call'[c].updated = "applied"

\* C13: an item is deleted only after its ttl has passed; a check whose
\* GetItem is answered before the item's ttl finds the item; and when its
\* UpdateItem is applied before the item's ttl (and within 604800 s of the
\* check's own clock reading) the check returns true and leaves the item in
\* place with ttl = that reading + 604800 s, again not passed.  So an item
\* whose every check comes before its current ttl is never deleted and every
\* such check returns true.
C13_Step ==
    /\ \A a \in Addresses :
          (table[a].present /\ ~table'[a].present) => table[a].ttl < nowSec
    /\ \A c \in Calls :
          /\ (Answered(c) /\ Alive(call[c].to)) => call'[c].item = "present"
          /\ (Applied(c) /\ Alive(call[c].to)
                /\ nowSec <= (call[c].nowRead \div 1000) + 604800) =>
                /\ call'[c].checkRes = "true"
                /\ AliveNext(call[c].to)
                /\ table'[call[c].to].ttl = (call[c].nowRead \div 1000) + 604800
                /\ table'[call[c].to].info = table[call[c].to].info

BothFound(c, d) ==
    /\ c # d
    /\ call[c].to = call[d].to
    /\ call[c].item = "present"
    /\ call[d].item = "present"

\* C14: two checks of the same address that both found the item, their
\* GetItem and UpdateItem steps interleaved in any order: each returns true
\* once its UpdateItem is applied, and each applied UpdateItem leaves the
\* item with the ttl of the call that sent it (its own now + 604800 s) and
\* nothing else changed; so after both the ttl is that of the call applied
\* last.
C14_Inv ==
    \A c, d \in Calls :
        (BothFound(c, d) /\ call[c].updated = "applied" /\ call[d].updated = "applied") =>
            /\ call[c].checkRes = "true"
            /\ call[d].checkRes = "true"
            /\ call[c].endTime = (call[c].nowRead \div 1000) + 604800
            /\ call[d].endTime = (call[d].nowRead \div 1000) + 604800

C14_Step ==
    \A c, d \in Calls :
        (BothFound(c, d) /\ Applied(c)) =>
            LET a == call[c].to IN
            /\ table'[a].present
            /\ table'[a].ttl = (call[c].nowRead \div 1000) + 604800
            /\ table[a].present => table'[a] = [table[a] EXCEPT !.ttl = call[c].endTime]
            /\ call'[c].checkRes = "true"

Expired(a) == table[a].present /\ table[a].ttl < nowSec

\* C15: with the table reachable, the check's result follows the presence of
\* the item at the lookup and nothing else: the lookup finds an item whatever
\* its ttl, the check returns true exactly when it found one, and an item
\* whose ttl has already passed is refreshed to now + 604800 s like any other.
C15_Inv ==
    \A c \in Calls :
        (CheckOver(c) /\ call[c].item \in {"present", "absent"}
                      /\ call[c].updated # "rejected") =>
            /\ call[c].checkRes \in {"true", "false"}
            /\ (call[c].checkRes = "true") <=> (call[c].item = "present")

C15_Step ==
    \A c \in Calls :
        LET a == call[c].to IN
        /\ Answered(c) => ((call'[c].item = "present") <=> table[a].present)
        /\ (Applied(c) /\ Expired(a)) =>
              /\ call'[c].checkRes = "true"
              /\ table'[a] = [table[a] EXCEPT !.ttl = (call[c].nowRead \div 1000) + 604800]

C15_PresenceDecides == [](C15_Inv) /\ [][C15_Step]_vars

\* a check found an item whose ttl has passed and is about to refresh it
C15_Witness ==
    \E c \in Calls :
        /\ call[c].pc = "update"
        /\ call[c].item = "present"
        /\ Expired(call[c].to)
        /\ call[c].nowRead \div 1000 > table[call[c].to].ttl

\* C16: with meta.enableActiveEmailValidation off the validator is never
\* called and counts as valid: the verdict follows the count and the bounce
\* check alone, with reason null, used or smtp.
C16_FlagOffSkipsValidator ==
    ~meta.enableActiveEmailValidation =>
        \A c \in Calls :
            /\ call[c].validates = 0
            /\ call[c].pc # "validating"
            /\ Returned(c) =>
                  /\ call[c].validated = validationSkipped
                  /\ call[c].verdict.available = (call[c].exist = 0 /\ ~IsSuppressed(c))
                  /\ call[c].verdict.reason =
                        IF call[c].exist # 0 THEN "used"
                        ELSE IF IsSuppressed(c) THEN "smtp" ELSE "null"

C16_Witness ==
    /\ ~meta.enableActiveEmailValidation
    /\ \E c \in Calls : Returned(c) /\ call[c].verdict.reason = "smtp"
    /\ \E c \in Calls : Returned(c) /\ call[c].verdict.reason = "null"

\* C17: a sendEmail call whose GetItem or UpdateItem command was rejected
\* ends by throwing the store's error with no SendEmail command sent; a
\* SendEmail command is sent only after the bounce check returned false.
C17_SendFailsClosed ==
    \A c \in Calls :
        IsSend(c) =>
            /\ (call[c].item = "rejected" \/ call[c].updated = "rejected") =>
                  /\ ~Falsy(tableName)
                  /\ Done(c)
                  /\ call[c].error = "StoreUnavailable"
                  /\ call[c].returned = "pending"
                  /\ call[c].sends = 0
                  /\ call[c].messageId = "none"
            /\ (call[c].sends > 0 \/ call[c].pc = "transport") =>
                  /\ call[c].checkRes = "false"
                  /\ call[c].item \in {"none", "absent"}
                  /\ call[c].updated = "none"

C17_Witness ==
    /\ \E c \in Calls : IsSend(c) /\ call[c].updated = "rejected" /\ Done(c)
    /\ \E c \in Calls : IsSend(c) /\ call[c].item = "rejected" /\ Done(c)

\* C18: a validateEmailForAccount call that returns a verdict has run the
\* bounce check once, after the account lookup and whatever its count: with
\* a table name one GetItem command, and for an item found one UpdateItem
\* command that was applied, writing now + 604800 s, also when the reason is
\* used.  A call whose account lookup threw never reaches the bounce check.
C18_Inv ==
    \A c \in Calls :
        IsValidate(c) =>
            /\ call[c].error \in {"MetaError", "RepositoryError"} =>
                  call[c].gets = 0 /\ call[c].checkRes = "none"
            /\ Returned(c) =>
                  /\ call[c].checkRes \in {"true", "false"}
                  /\ call[c].gets = IF Falsy(tableName) THEN 0 ELSE 1
                  /\ call[c].updates <= 1
                  /\ ~Falsy(tableName) => call[c].item \in {"present", "absent"}
                  /\ call[c].item = "present" =>
                        /\ call[c].updates = 1
                        /\ call[c].updated = "applied"
                        /\ call[c].checkRes = "true"

C18_Step ==
    \A c \in Calls :
        (IsValidate(c) /\ Applied(c)) =>
            /\ table'[call[c].to].present
            /\ table'[call[c].to].ttl = (call[c].nowRead \div 1000) + 604800

C18_ValidateRefreshes == [](C18_Inv) /\ [][C18_Step]_vars

C18_Witness ==
    \E c \in Calls :
        /\ Returned(c)
        /\ call[c].verdict = [available |-> FALSE, reason |-> "used"]
        /\ call[c].updated = "applied"
        /\ call[c].nowRead > StartMs
        /\ table[call[c].to] = BounceItem(call[c].endTime)

C19_Step ==
    \A a \in Addresses :
        (table[a].present /\ table'[a].present /\ table'[a].ttl < table[a].ttl) =>
            \E c \in Calls :
                /\ Applied(c)
                /\ call[c].to = a
                /\ call[c].nowRead < nowMs
                /\ table'[a].ttl = (call[c].nowRead \div 1000) + 604800
                /\ \/ \E d \in Calls \ {c} : /\ call[d].updated = "applied"
                                                /\ call[d].endTime = table[a].ttl
                                                /\ call[d].nowRead > call[c].nowRead
                   \/ table[a] = BounceItem(table[a].ttl)

====
